---- MODULE Spec2Model ----
(***************************************************************************)
(* Model of git-workspace.                                                 *)
(*                                                                         *)
(* Spec and FairSpec: the action execution engine (src/mod.ts,             *)
(* worktreeAction and the part of main that invokes it).  The engine is    *)
(* one thread of control; its position is the call stack of worktreeAction *)
(* frames plus pc.  A spawned shell task is a child process whose exit is  *)
(* an event; SIGINT delivery to the host is another event.                 *)
(*                                                                         *)
(* ToolSpec: the helpers retrieveMainBranch (src/git.ts) and readConfig    *)
(* (src/config.ts), each applied once to inputs drawn at the start.        *)
(*                                                                         *)
(* DeleteSpec: the delete command (main's branch for it and                *)
(* deleteWorktree, src/mod.ts).                                            *)
(***************************************************************************)
EXTENDS Integers, Sequences, FiniteSets, TLC

(* ------------------------------------------------------------------ *)
(* Optional values: `undefined` is the empty tuple, a present value v   *)
(* is <<v>>.  Coalesce is the ?? operator of TypeScript.                *)
(* ------------------------------------------------------------------ *)
Undefined == << >>

Some(v) == << v >>

Coalesce(opt, dflt) == IF opt = Undefined THEN dflt ELSE opt[1]

(* ------------------------------------------------------------------ *)
(* Bounds of the exploration.                                           *)
(* ------------------------------------------------------------------ *)
MaxInterrupts == 1

\* calls deeper than this are not explored (the code has no such limit)
MaxDepth == 4

(* ------------------------------------------------------------------ *)
(* Exit statuses given to die.                                          *)
(* ------------------------------------------------------------------ *)
ExitNotFound == 1

ExitUnknownTask == 1

ExitUsage == 1

\* variant: main's catch block ends with the status of the other errors
ExitUncaughtAsUsage == ExitUsage

ExitUncaught == 3

(* ------------------------------------------------------------------ *)
(* Configuration model: tasks as the engine reads them.                 *)
(* ------------------------------------------------------------------ *)
ActionTask(name, targs, soe, sil) ==
  [type |-> "action", action |-> name, args |-> targs,
   stop_on_error |-> soe, silent |-> sil, shell |-> "", script |-> ""]

ShellTask(sh, text, soe) ==
  [type |-> "shell", action |-> "", args |-> Undefined,
   stop_on_error |-> soe, silent |-> Undefined, shell |-> sh, script |-> text]

\* a task shape the engine does not recognise (neither "action" nor "shell")
OtherTask(ty, text, soe) ==
  [type |-> ty, action |-> "", args |-> Undefined,
   stop_on_error |-> soe, silent |-> Undefined, shell |-> "", script |-> text]

Action(sil, ts) == [silent |-> sil, tasks |-> ts]

\* the three values a task's stop_on_error can have
Policies == { Undefined, Some(TRUE), Some(FALSE) }

\* A family of configurations.  p is the policy of the first shell task of
\* the leaf actions, q the policy of the inner action references, r the
\* policy of the outer action references.
MkConfig(p, q, r) ==
  ( "leaf" :> Action(Some(TRUE),
        << ShellTask("bash", "l0", p), ShellTask("nushell", "l1", Undefined) >>) )
  @@ ( "mid" :> Action(Some(TRUE),
        << ActionTask("leaf", Undefined, q, Undefined),
           ShellTask("bash", "m1", Undefined) >>) )
  @@ ( "top" :> Action(Undefined,
        << ActionTask("mid", Some(<< "--foo" >>), r, Some(FALSE)),
           ShellTask("bash", "t1", Some(FALSE)),
           ShellTask("bash", "t2", Undefined) >>) )
  @@ ( "a" :> Action(Undefined,
        << ActionTask("b", Undefined, Undefined, Undefined),
           ShellTask("bash", "echo hi", Undefined) >>) )
  @@ ( "b" :> Action(Some(FALSE),
        << ShellTask("bash", "echo nested", Undefined) >>) )
  @@ ( "lost" :> Action(Undefined,
        << ShellTask("bash", "x0", p),
           ActionTask("nope", Undefined, q, Undefined),
           ShellTask("bash", "x2", Undefined) >>) )
  @@ ( "odd" :> Action(Undefined,
        << OtherTask("bash", "o0", q),
           ShellTask("bash", "o1", Undefined) >>) )
  @@ ( "wrap" :> Action(Some(TRUE),
        << ActionTask("lost", Some(<< >>), r, Some(TRUE)),
           ActionTask("odd", Undefined, Some(FALSE), Undefined),
           ShellTask("bash", "w2", Undefined) >>) )

Configs == { MkConfig(p, q, r) : p \in Policies, q \in Policies, r \in Policies }

\* action names a caller may ask for; "nope" is a key of no configuration
\* a configuration whose action references form cycles: loop calls itself
\* after a task whose failure is ignored, ping and pong call each other
CyclicConfig ==
  ( "loop" :> Action(Undefined,
        << ShellTask("bash", "c0", Some(FALSE)),
           ActionTask("loop", Undefined, Undefined, Undefined),
           ShellTask("bash", "c2", Undefined) >>) )
  @@ ( "ping" :> Action(Undefined,
        << ActionTask("pong", Undefined, Undefined, Undefined) >>) )
  @@ ( "pong" :> Action(Undefined,
        << ShellTask("bash", "p0", Undefined),
           ActionTask("ping", Undefined, Some(FALSE), Undefined) >>) )

Names ==
  { "leaf", "mid", "top", "a", "b", "lost", "odd", "wrap", "nope", "action1", "action3",
    "loop", "ping" }

ArgVectors == { << >>, << "x", "y" >> }

Branches == { "feat" }

(* ------------------------------------------------------------------ *)
(* The configuration loader (src/config.ts).                            *)
(* ------------------------------------------------------------------ *)

\* a task as parseYaml gives it: every key is Undefined or <<value>>; the
\* value of args says whether it is an array
RawTask(ty, act, targs, soe, scr, sh) ==
  [ type |-> ty, action |-> act, args |-> targs, stop_on_error |-> soe,
    script |-> scr, bash |-> sh ]

\* a task as TaskSchema returns it; Undefined is an absent key
ParsedTask(ty, act, targs, soe, scr) ==
  [ type |-> ty, action |-> act, args |-> targs, stop_on_error |-> soe, script |-> scr ]

\* z.string().min(1)
NonEmptyString(opt) == opt # Undefined /\ opt[1] # ""

\* { type: "action", action, args?, stop_on_error? }
TaskOption1(raw) ==
  IF /\ raw.type = Some("action")
     /\ NonEmptyString(raw.action)
     /\ (raw.args = Undefined \/ raw.args[1].isArray)
  THEN Some(ParsedTask("action", raw.action,
                       IF raw.args = Undefined THEN Undefined ELSE Some(raw.args[1].items),
                       raw.stop_on_error, Undefined))
  ELSE Undefined

\* { action }, transformed to { type: "action", action }
TaskOption2(raw) ==
  IF NonEmptyString(raw.action)
  THEN Some(ParsedTask("action", raw.action, Undefined, Undefined, Undefined))
  ELSE Undefined

\* { type: "bash", script, stop_on_error? }
TaskOption3(raw) ==
  IF raw.type = Some("bash") /\ NonEmptyString(raw.script)
  THEN Some(ParsedTask("bash", Undefined, Undefined, raw.stop_on_error, raw.script))
  ELSE Undefined

\* { bash }, transformed to { type: "bash", script: bash }
TaskOption4(raw) ==
  IF NonEmptyString(raw.bash)
  THEN Some(ParsedTask("bash", Undefined, Undefined, Undefined, raw.bash))
  ELSE Undefined

\* variant: only the tagged shapes are accepted
TaskSchemaTaggedOnly(raw) ==
  IF TaskOption1(raw) # Undefined THEN TaskOption1(raw) ELSE TaskOption3(raw)

\* z.union([...]): the result of the first option that accepts the input,
\* Undefined (a ZodError) when none does
TaskSchema(raw) ==
  IF TaskOption1(raw) # Undefined THEN TaskOption1(raw)
  ELSE IF TaskOption2(raw) # Undefined THEN TaskOption2(raw)
  ELSE IF TaskOption3(raw) # Undefined THEN TaskOption3(raw)
  ELSE TaskOption4(raw)

\* z.record(ActionSchema) with tasks: z.array(TaskSchema)
ConfigSchema(raw) ==
  IF \A n \in DOMAIN raw : \A k \in 1..Len(raw[n].tasks) :
        TaskSchema(raw[n].tasks[k]) # Undefined
  THEN Some([ n \in DOMAIN raw |->
              [ tasks |-> [ k \in 1..Len(raw[n].tasks) |-> TaskSchema(raw[n].tasks[k])[1] ] ] ])
  ELSE Undefined

\* DEFAULT_CONFIG, as parseYaml reads it (`args: --foo` is a string)
DefaultConfigRaw ==
  ( "action1" :> [ tasks |-> <<
        RawTask(Undefined, Some("action2"), Undefined, Undefined, Undefined, Undefined),
        RawTask(Some("action"), Some("action3"),
                Some([ isArray |-> FALSE, items |-> << "--foo" >> ]),
                Undefined, Undefined, Undefined) >> ] )
  @@ ( "action2" :> [ tasks |-> <<
        RawTask(Undefined, Undefined, Undefined, Undefined, Undefined, Some("echo 2")) >> ] )
  @@ ( "action3" :> [ tasks |-> <<
        RawTask(Some("bash"), Undefined, Undefined, Some(FALSE), Some("echo 3"), Undefined) >> ] )
  @@ ( "tab:title" :> [ tasks |-> <<
        RawTask(Undefined, Undefined, Undefined, Undefined, Undefined, Some("wezterm")) >> ] )

\* single tasks the loader is tried on
RawTasks ==
  { RawTask(ty, act, targs, soe, scr, sh) :
      ty \in { Undefined, Some("action"), Some("bash"), Some("shell") },
      act \in { Undefined, Some(""), Some("action2") },
      targs \in { Undefined,
                  Some([ isArray |-> TRUE, items |-> << "--foo" >> ]),
                  Some([ isArray |-> FALSE, items |-> << "--foo" >> ]) },
      soe \in { Undefined, Some(FALSE) },
      scr \in { Undefined, Some("echo") },
      sh \in { Undefined, Some(""), Some("echo") } }

RawConfigs ==
  { DefaultConfigRaw } \cup { ( "action1" :> [ tasks |-> << t >> ] ) : t \in RawTasks }

\* the loader's result as worktreeAction reads it.  The object is the
\* same; a key the loader's result does not have reads as undefined (the
\* engine's string fields shell, action and script as "")
AsEngineTask(parsed) ==
  [ type          |-> parsed.type,
    action        |-> Coalesce(parsed.action, ""),
    args          |-> parsed.args,
    stop_on_error |-> parsed.stop_on_error,
    silent        |-> Undefined,
    shell         |-> "",
    script        |-> Coalesce(parsed.script, "") ]

AsEngineConfig(loaded) ==
  [ n \in DOMAIN loaded |->
      Action(Undefined,
             [ k \in 1..Len(loaded[n].tasks) |-> AsEngineTask(loaded[n].tasks[k]) ]) ]

\* const config = await readConfig(...) in main, for the configuration
\* files main is started on
LoadedConfigs ==
  { AsEngineConfig(ConfigSchema(raw)[1]) :
      raw \in { r \in { DefaultConfigRaw } : ConfigSchema(r) # Undefined } }

(* ------------------------------------------------------------------ *)
(* The repository as the delete command sees it.                        *)
(* ------------------------------------------------------------------ *)
\* a branch name, short ("feat") or as a full ref ("refs/heads/feat")
ShortName(name) == [ full |-> FALSE, name |-> name ]

FullRef(name) == [ full |-> TRUE, name |-> name ]

\* the worktrees `git worktree list` shows and the branches that exist
\* before the command runs; "/repo/gone" is a path that is no worktree
AllWorktrees == { "/repo/main", "/repo/wt" }

AllBranches == { "main", "feat" }

TargetWorktrees == { Undefined, Some("/repo/main"), Some("/repo/wt"), Some("/repo/gone") }

\* git branch --show-current in a worktree
CurrentBranch(worktree) ==
  IF worktree = "/repo/main" THEN ShortName("main") ELSE ShortName("feat")

\* the four boolean flags of the delete command
DeleteFlags == [ force : BOOLEAN, deleteBranch : BOOLEAN, forceDeleteBranch : BOOLEAN,
                 forceDeleteMain : BOOLEAN ]

\* the delete command with its inputs, before it has done anything
DeleteRequest(target, mainWorktree, flags, merged, dirty) ==
  [ target       |-> target,
    mainWorktree |-> mainWorktree,
    options      |-> flags,
    worktrees    |-> AllWorktrees,
    branches     |-> AllBranches,
    merged       |-> merged,
    dirty        |-> dirty,
    branch       |-> Undefined,
    pc           |-> "main",
    exitCode     |-> -1,
    error        |-> "",
    ops          |-> << >> ]

\* the value of repo where no delete command is run
NoDelete ==
  DeleteRequest(Undefined, Undefined,
                [ force |-> FALSE, deleteBranch |-> FALSE, forceDeleteBranch |-> FALSE,
                  forceDeleteMain |-> FALSE ],
                {}, FALSE)

VARIABLES
  config,      \* the configuration read by main, never changed afterwards
  request,     \* what main asked the engine for, and the branch git reports for
               \* the worktree: Undefined or <<[actionName, args, branch]>>
  pc,          \* position of the engine
  stack,       \* call stack of worktreeAction frames, outermost first
  child,       \* the child process being awaited: Undefined or <<record>>
  listeners,   \* the SIGINT listeners registered with the host, by child id
  nextId,      \* id of the next spawned child
  spawned,     \* history: every shell process spawned so far, in order
  log,         \* history: what happened to each task, in order
  kills,       \* history: every cmd.kill("SIGINT") made by a fired listener
  exitCode,    \* exit status of the host process, -1 while it runs
  interrupts,  \* number of SIGINTs delivered to the host so far
  displayInfo, \* _displayInfo of _utils.ts: FALSE once --quiet was given
  banners,     \* history: every "Performing action" banner, in order
  warnings,    \* history: every "Ignored error" warning, in order
  git,         \* what the git helpers read (environment, git config) and return
  loader,      \* input and result of the configuration loader
  repo         \* the delete command: its arguments, the repository, its position

vars == << config, request, pc, stack, child, listeners, nextId, spawned, log,
           kills, exitCode, interrupts, displayInfo, banners, warnings, git,
           loader, repo >>

\* the variables of the engine
engineVars == << config, request, pc, stack, child, listeners, nextId, spawned, log,
                 kills, exitCode, interrupts, displayInfo, banners, warnings >>

\* the variables of the helpers around it
toolVars == << git, loader, repo >>

(* ------------------------------------------------------------------ *)
(* Pure parts of worktreeAction.                                        *)
(* ------------------------------------------------------------------ *)

\* variant: the lookup result is never checked
HasActionUnchecked(cfg, name) == TRUE

\* variant: an action that is already being performed is refused
HasActionNotEntered(cfg, name) ==
  name \in DOMAIN cfg /\ \A k \in 1..Len(stack) : stack[k].actionName # name

\* const action = config[actionName]; action === undefined
HasAction(cfg, name) == name \in DOMAIN cfg

\* the default value of `env`, evaluated when the caller passes none
BuildEnv(actionName, worktree, branch, mainWorktree) ==
  [ GIT_WP_ACTION_NAME   |-> actionName,
    GIT_WP_BARE_PATH     |-> "/repo/bare.git",
    GIT_WP_BRANCH_NAME   |-> branch,
    GIT_WP_MAIN_PATH     |-> mainWorktree,
    GIT_WP_PROJECT_NAME  |-> "proj",
    GIT_WP_WORKTREE_PATH |-> worktree,
    GIT_WP_ACTION        |-> actionName,
    GIT_WP_BRANCH        |-> branch,
    GIT_WP_PROJECT       |-> "proj",
    GIT_WP_WORKTREE      |-> worktree ]

\* variant: the environment is passed on as it was built
ProcessEnvAsBuilt(env, actionName) == env

\* .env({ ...env, GIT_WP_ACTION: actionName })
ProcessEnv(env, actionName) == [env EXCEPT !.GIT_WP_ACTION = actionName]

\* variant: the override of the task is dropped
NestedArgsInherited(task, args) == args

\* variant: without an override the nested action gets the arguments of
\* the outermost call
NestedArgsOutermost(task, args) == Coalesce(task.args, request[1].args)

\* args: task.args ?? args
NestedArgs(task, args) == Coalesce(task.args, args)

\* variant: a task without a silent field hands the caller's override down
NestedOptionsSilentInherited(frame, task) ==
  [ actionName |-> task.action,
    args       |-> NestedArgs(task, frame.args),
    nested     |-> TRUE,
    env        |-> Some(frame.env),
    silent     |-> IF task.silent # Undefined THEN task.silent ELSE frame.silent,
    idx        |-> 0 ]

\* variant: the recursive call passes no env, so the callee builds its own
NestedOptionsNoEnv(frame, task) ==
  [ actionName |-> task.action,
    args       |-> NestedArgs(task, frame.args),
    nested     |-> TRUE,
    env        |-> Undefined,
    silent     |-> task.silent,
    idx        |-> 0 ]

\* the options of the recursive call: { ...options, actionName, args, nested, env, silent }
NestedOptions(frame, task) ==
  [ actionName |-> task.action,
    args       |-> NestedArgs(task, frame.args),
    nested     |-> TRUE,
    env        |-> Some(frame.env),
    silent     |-> task.silent,
    idx        |-> 0 ]

\* the invocation's local variables once the options are destructured:
\* the default of `env` is evaluated only when the caller passed none;
\* branch is what git reports for the worktree at that time
Frame(opts, branch) ==
  [ actionName |-> opts.actionName,
    args       |-> opts.args,
    nested     |-> opts.nested,
    env        |-> IF opts.env = Undefined
                   THEN BuildEnv(opts.actionName, "/repo/wt", branch, "/repo/main")
                   ELSE opts.env[1],
    built      |-> opts.env = Undefined,
    silent     |-> opts.silent,
    idx        |-> 0 ]

\* variant: the policy of the failing task is not read, every error is rethrown
SuppressesNever(task) == FALSE

\* variant: an absent stop_on_error counts as false
SuppressesUnlessTrue(task) == task.stop_on_error # Some(TRUE)

\* catch (err) { if (task.stop_on_error === false) ... else throw err }
Suppresses(task) == task.stop_on_error = Some(FALSE)

\* what the script sees as its positional parameters: bash gets
\* `action <args>`, nu gets the script alone
ShellArgv(task, args) == IF task.shell = "bash" THEN args ELSE << >>

\* the value of `silent ?? action.silent`, as a condition
SilentFlag(opts, action) ==
  (IF opts.silent # Undefined THEN opts.silent ELSE action.silent) = Some(TRUE)

\* variant: the banner is printed unless the flag is set
EmitsBannerUnlessSilent(opts, action) == ~ SilentFlag(opts, action)

\* if (silent ?? action.silent) { ...banner... }
EmitsBanner(opts, action) == SilentFlag(opts, action)

\* variant: every banner is printed in the outer style
BannerStyleOuter(nested) == "outer"

\* nested: emptyLog() and note(...); otherwise info(...)
BannerStyle(nested) == IF nested THEN "nested" ELSE "outer"

\* what the banner code appends to the output: emptyLog, note and info
\* print nothing when _displayInfo is false
Banner(opts, action, depth) ==
  IF EmitsBanner(opts, action) /\ displayInfo'
  THEN << [ action |-> opts.actionName,
            style  |-> BannerStyle(opts.nested),
            nested |-> opts.nested,
            depth  |-> depth ] >>
  ELSE << >>

(* ------------------------------------------------------------------ *)
(* Reading the call stack.                                              *)
(* ------------------------------------------------------------------ *)
Top == stack[Len(stack)]

TasksOf(frame) == config[frame.actionName].tasks

\* the task a frame is at (idx is the 0-based index of the for loop)
TaskAt(frame) == TasksOf(frame)[frame.idx + 1]

\* a task of the call tree is named by the loop indexes of the frames that
\* lead to it, outermost first
PathOf(stk) == [k \in 1..Len(stk) |-> stk[k].idx]

\* one entry of the history: what happened (start, ok, ignored, thrown) to
\* the task the top frame of stk is at
Event(kind, stk) ==
  [ kind   |-> kind,
    at     |-> PathOf(stk),
    action |-> stk[Len(stk)].actionName,
    task   |-> TaskAt(stk[Len(stk)]) ]

\* variant: the loop stays at the task, which is run again
AdvanceStay(stk) == stk

\* variant: the loop steps over a task
AdvanceByTwo(stk) == [stk EXCEPT ![Len(stk)].idx = @ + 2]

Advance(stk) == [stk EXCEPT ![Len(stk)].idx = @ + 1]

Pop(stk) == SubSeq(stk, 1, Len(stk) - 1)

RemoveId(ls, id) == SelectSeq(ls, LAMBDA x : x # id)

(* ------------------------------------------------------------------ *)
(* Initial state: main has read a configuration, nothing runs yet.      *)
(* ------------------------------------------------------------------ *)
Init ==
  /\ config \in Configs \cup LoadedConfigs \cup { CyclicConfig }
  /\ request = Undefined
  /\ pc = "main"
  /\ stack = << >>
  /\ child = Undefined
  /\ listeners = << >>
  /\ nextId = 1
  /\ spawned = << >>
  /\ log = << >>
  /\ kills = << >>
  /\ exitCode = -1
  /\ interrupts = 0
  /\ displayInfo = TRUE
  /\ banners = << >>
  /\ warnings = << >>
  /\ git = [ env |-> Undefined, defaultBranch |-> Some("main"), mainBranch |-> Undefined ]
  /\ loader = [ raw |-> << >>, result |-> Undefined, done |-> FALSE ]
  /\ repo = NoDelete

(* ------------------------------------------------------------------ *)
(* The engine.                                                          *)
(* ------------------------------------------------------------------ *)

\* variant: die raises an error instead of ending the process
DieThrows(code) ==
  /\ pc' = "throw"
  /\ UNCHANGED exitCode

\* die(code, ...): logs and calls Deno.exit(code); the host process ends
\* where it stands, no catch block runs
Die(code) ==
  /\ pc' = "exited"
  /\ exitCode' = code

\* Entry of worktreeAction with options opts, called on stack stk: look
\* the action up, die(1) when it is not configured, else start its loop.
Invoke(opts, stk, branch) ==
  IF HasAction(config, opts.actionName)
  THEN /\ stack' = Append(stk, Frame(opts, branch))
       /\ banners' = banners \o
            (IF opts.actionName \in DOMAIN config
             THEN Banner(opts, config[opts.actionName], Len(stk) + 1)
             ELSE << >>)
       /\ pc' = "run"
       /\ UNCHANGED exitCode
  ELSE /\ stack' = stk
       /\ UNCHANGED banners
       /\ Die(ExitNotFound)

\* main: `git workspace action <name> <args>` or `git workspace <name> <args>`
MainAction ==
  /\ pc = "main"
  /\ \E name \in Names, args \in ArgVectors, branch \in Branches, quiet \in BOOLEAN :
       /\ displayInfo' = ~ quiet
       /\ request' = Some([actionName |-> name, args |-> args, branch |-> branch])
       /\ Invoke([ actionName |-> name,
                   args       |-> args,
                   nested     |-> FALSE,
                   env        |-> Undefined,
                   silent     |-> Undefined,
                   idx        |-> 0 ], stack, branch)
  /\ UNCHANGED << config, child, listeners, nextId, spawned, log, kills, interrupts,
                  warnings >>
  /\ UNCHANGED toolVars

\* main: the command is neither a built-in one nor an action of the
\* configuration (or is missing): die(1, usage)
MainUsage ==
  /\ pc = "main"
  /\ \E quiet \in BOOLEAN : displayInfo' = ~ quiet
  /\ Die(ExitUsage)
  /\ UNCHANGED << config, request, stack, child, listeners, nextId, spawned, log, kills,
                  interrupts, banners, warnings >>
  /\ UNCHANGED toolVars

\* for loop, task.type === "action": the recursive call
CallAction ==
  /\ pc = "run"
  /\ Top.idx < Len(TasksOf(Top))
  /\ TaskAt(Top).type = "action"
  /\ Len(stack) < MaxDepth
  /\ log' = Append(log, Event("start", stack))
  /\ UNCHANGED displayInfo
  /\ Invoke(NestedOptions(Top, TaskAt(Top)), stack, request[1].branch)
  /\ UNCHANGED << config, request, child, listeners, nextId, spawned, kills, interrupts,
                  warnings >>
  /\ UNCHANGED toolVars

\* variant: the command is started and the loop goes on without awaiting it
AwaitCmdDetached(stk) == [ pc |-> "run", stack |-> Advance(stk) ]

\* `await cmd`: the invocation is suspended at the task until the child ends
AwaitCmd(stk) == [ pc |-> "await", stack |-> stk ]

\* for loop, task.type === "shell": spawn the child, register killCmd, await
SpawnShell ==
  /\ pc = "run"
  /\ Top.idx < Len(TasksOf(Top))
  /\ TaskAt(Top).type = "shell"
  /\ log' = Append(log, Event("start", stack))
  /\ child' = Some([id |-> nextId, signalled |-> FALSE])
  /\ spawned' = Append(spawned,
        [ id     |-> nextId,
          at     |-> PathOf(stack),
          action |-> Top.actionName,
          shell  |-> TaskAt(Top).shell,
          script |-> TaskAt(Top).script,
          args   |-> Top.args,
          argv   |-> ShellArgv(TaskAt(Top), Top.args),
          env    |-> ProcessEnv(Top.env, Top.actionName) ])
  /\ listeners' = Append(listeners, nextId)
  /\ nextId' = nextId + 1
  /\ pc' = AwaitCmd(stack).pc
  /\ stack' = AwaitCmd(stack).stack
  /\ UNCHANGED << config, request, kills, exitCode, interrupts >>
  /\ UNCHANGED << displayInfo, banners, warnings >>
  /\ UNCHANGED toolVars

\* for loop, any other task.type: die(1, "Unknown task type")
UnknownTask ==
  /\ pc = "run"
  /\ Top.idx < Len(TasksOf(Top))
  /\ TaskAt(Top).type \notin { "action", "shell" }
  /\ log' = Append(log, Event("start", stack))
  /\ Die(ExitUnknownTask)
  /\ UNCHANGED << config, request, stack, child, listeners, nextId, spawned, kills,
                  interrupts >>
  /\ UNCHANGED << displayInfo, banners, warnings >>
  /\ UNCHANGED toolVars

\* `await cmd` resolves: the listener is removed and the loop goes on
ChildSucceeds ==
  /\ pc = "await"
  /\ listeners' = RemoveId(listeners, child[1].id)
  /\ child' = Undefined
  /\ log' = Append(log, Event("ok", stack))
  /\ stack' = Advance(stack)
  /\ pc' = "run"
  /\ UNCHANGED << config, request, nextId, spawned, kills, exitCode, interrupts >>
  /\ UNCHANGED << displayInfo, banners, warnings >>
  /\ UNCHANGED toolVars

\* variant: the warning is written whatever _displayInfo is
WarnAlways(stk) ==
  << [ idx |-> stk[Len(stk)].idx, at |-> PathOf(stk), action |-> stk[Len(stk)].actionName ] >>

\* emptyLog(); warn(`Ignored error happening while performing task #${idx}`, err):
\* both return at once when _displayInfo is false
Warn(stk) ==
  IF displayInfo
  THEN << [ idx |-> stk[Len(stk)].idx, at |-> PathOf(stk), action |-> stk[Len(stk)].actionName ] >>
  ELSE << >>

\* variant: the try/catch encloses the whole loop, so an ignored error
\* ends the loop
CatchOutsideLoop(stk) ==
  IF Suppresses(TaskAt(stk[Len(stk)]))
  THEN /\ log' = Append(log, Event("ignored", stk))
       /\ warnings' = warnings \o Warn(stk)
       /\ stack' = [stk EXCEPT ![Len(stk)].idx = Len(TasksOf(stk[Len(stk)]))]
       /\ pc' = "run"
  ELSE /\ log' = Append(log, Event("thrown", stk))
       /\ UNCHANGED warnings
       /\ stack' = stk
       /\ pc' = "throw"

\* the catch block of the task the top frame is at
Catch(stk) ==
  IF Suppresses(TaskAt(stk[Len(stk)]))
  THEN /\ log' = Append(log, Event("ignored", stk))
       /\ warnings' = warnings \o Warn(stk)
       /\ stack' = Advance(stk)
       /\ pc' = "run"
  ELSE /\ log' = Append(log, Event("thrown", stk))
       /\ UNCHANGED warnings
       /\ stack' = stk
       /\ pc' = "throw"

\* `await cmd` rejects (non-zero exit): control jumps to the catch block,
\* Deno.removeSignalListener is not reached
ChildFails ==
  /\ pc = "await"
  /\ child' = Undefined
  /\ Catch(stack)
  /\ UNCHANGED << config, request, listeners, nextId, spawned, kills, exitCode,
                  interrupts >>
  /\ UNCHANGED << displayInfo, banners >>
  /\ UNCHANGED toolVars

\* the loop of the top frame is over: worktreeAction returns
ReturnAction ==
  /\ pc = "run"
  /\ Top.idx = Len(TasksOf(Top))
  /\ IF Len(stack) = 1
     THEN /\ stack' = << >>
          /\ pc' = "done"
          /\ exitCode' = 0
          /\ UNCHANGED log
     ELSE /\ log' = Append(log, Event("ok", Pop(stack)))
          /\ stack' = Advance(Pop(stack))
          /\ pc' = "run"
          /\ UNCHANGED exitCode
  /\ UNCHANGED << config, request, child, listeners, nextId, spawned, kills, interrupts >>
  /\ UNCHANGED << displayInfo, banners, warnings >>
  /\ UNCHANGED toolVars

\* an error leaves the top frame's worktreeAction: the caller's catch
\* block gets it, or main's catch block, which does die(3, err)
Unwind ==
  /\ pc = "throw"
  /\ stack # << >>
  /\ IF Len(stack) = 1
     THEN /\ stack' = << >>
          /\ Die(ExitUncaught)
          /\ UNCHANGED << log, warnings >>
     ELSE /\ Catch(Pop(stack))
          /\ UNCHANGED exitCode
  /\ UNCHANGED << config, request, child, listeners, nextId, spawned, kills, interrupts >>
  /\ UNCHANGED << displayInfo, banners >>
  /\ UNCHANGED toolVars

\* variant: the listener swallows the interrupt without forwarding it
KillCmdSwallows(ch, id) == ch

\* const killCmd = () => cmd.kill("SIGINT"), run for the child with this
\* id: the child gets the signal if it is still the running one
KillCmd(ch, id) ==
  IF ch # Undefined /\ ch[1].id = id
  THEN Some([ch[1] EXCEPT !.signalled = TRUE])
  ELSE ch

\* SIGINT reaches the host process.  With no listener registered the host
\* is terminated by the signal; otherwise every registered killCmd runs.
Interrupt ==
  /\ pc \in { "run", "await", "throw" }
  /\ interrupts < MaxInterrupts
  /\ interrupts' = interrupts + 1
  /\ IF listeners = << >>
     THEN /\ pc' = "killed"
          /\ exitCode' = 130
          /\ UNCHANGED << child, kills >>
     ELSE /\ kills' = kills \o
               [k \in 1..Len(listeners) |->
                  [ id    |-> listeners[k],
                    alive |-> child # Undefined /\ child[1].id = listeners[k] ]]
          /\ child' = IF child # Undefined
                           /\ (\E k \in 1..Len(listeners) : listeners[k] = child[1].id)
                      THEN KillCmd(child, child[1].id)
                      ELSE child
          /\ UNCHANGED << pc, exitCode >>
  /\ UNCHANGED << config, request, stack, listeners, nextId, spawned, log >>
  /\ UNCHANGED << displayInfo, banners, warnings >>
  /\ UNCHANGED toolVars

Next ==
  \/ MainAction
  \/ MainUsage
  \/ CallAction
  \/ SpawnShell
  \/ UnknownTask
  \/ ChildSucceeds
  \/ ChildFails
  \/ ReturnAction
  \/ Unwind
  \/ Interrupt

Spec == Init /\ [][Next]_vars

\* The engine is one thread that keeps running: a step of worktreeAction
\* that can be taken is taken.  A spawned process eventually exits, with
\* one status or the other.  SIGINT may or may not come.
EngineStep == CallAction \/ SpawnShell \/ UnknownTask \/ ReturnAction \/ Unwind

ChildExits == ChildSucceeds \/ ChildFails

FairSpec == Spec /\ WF_vars(EngineStep) /\ WF_vars(ChildExits)

(* ------------------------------------------------------------------ *)
(* The git helper retrieveMainBranch (src/git.ts).                      *)
(* ------------------------------------------------------------------ *)

\* values of the environment variable GIT_WP_MAIN_BRANCH
EnvValues == { Undefined, Some("develop"), Some("") }

\* values of `git config init.defaultBranch`; Undefined: not configured
GitConfigValues == { Undefined, Some("main"), Some("trunk") }

\* $`git config init.defaultBranch`.text(): the trimmed output, or an
\* error when git exits with a non-zero status (the key is not set)
GitConfigText(cfg) ==
  IF cfg = Undefined
  THEN [ threw |-> TRUE, value |-> "" ]
  ELSE [ threw |-> FALSE, value |-> cfg[1] ]

\* Deno.env.get("GIT_WP_MAIN_BRANCH") ?? await $`...`.text() ?? "main"
RetrieveMainBranch(env, cfg) ==
  IF env # Undefined
  THEN [ threw |-> FALSE, value |-> env[1] ]
  ELSE IF GitConfigText(cfg).threw
       THEN [ threw |-> TRUE, value |-> "" ]
       ELSE [ threw |-> FALSE, value |-> Coalesce(Some(GitConfigText(cfg).value), "main") ]

CallRetrieveMainBranch ==
  /\ git.mainBranch = Undefined
  /\ git' = [git EXCEPT !.mainBranch = Some(RetrieveMainBranch(git.env, git.defaultBranch))]
  /\ UNCHANGED << loader, repo >>
  /\ UNCHANGED engineVars

(* ------------------------------------------------------------------ *)
(* The configuration loader as the helpers' specification calls it.     *)
(* ------------------------------------------------------------------ *)
\* readConfig({ content }): parseYaml, then ConfigSchema.parse
ReadConfig ==
  /\ ~ loader.done
  /\ loader' = [loader EXCEPT !.result = ConfigSchema(loader.raw), !.done = TRUE]
  /\ UNCHANGED << git, repo >>
  /\ UNCHANGED engineVars

(* ------------------------------------------------------------------ *)
(* The helpers on their own: inputs drawn at the start, each helper     *)
(* applied once.                                                        *)
(* ------------------------------------------------------------------ *)
ToolInit ==
  /\ config = MkConfig(Undefined, Undefined, Undefined)
  /\ request = Undefined
  /\ pc = "main"
  /\ stack = << >>
  /\ child = Undefined
  /\ listeners = << >>
  /\ nextId = 1
  /\ spawned = << >>
  /\ log = << >>
  /\ kills = << >>
  /\ exitCode = -1
  /\ interrupts = 0
  /\ displayInfo = TRUE
  /\ banners = << >>
  /\ warnings = << >>
  /\ \E e \in EnvValues, d \in GitConfigValues :
       git = [ env |-> e, defaultBranch |-> d, mainBranch |-> Undefined ]
  /\ \E r \in RawConfigs :
       loader = [ raw |-> r, result |-> Undefined, done |-> FALSE ]
  /\ repo = NoDelete

ToolNext ==
  \/ CallRetrieveMainBranch
  \/ ReadConfig

ToolSpec == ToolInit /\ [][ToolNext]_vars

(* ------------------------------------------------------------------ *)
(* The delete command: main's branch for it, then deleteWorktree.       *)
(* ------------------------------------------------------------------ *)
\* die(code, message) inside the delete command
DeleteDies(r, code, why) ==
  [r EXCEPT !.pc = "exited", !.exitCode = code, !.error = why]

\* Git.fullBranchName
FullBranchName(branch) == FullRef(branch.name)

\* git branch --list --format '%(refname)' --merged, in the main worktree
DeletableBranches(r) == { FullRef(b) : b \in r.merged }

\* variant: the branch is never compared with the merged ones
NotFullyMergedUnchecked(r, branch) == FALSE

\* the condition under which deleteWorktree dies with "is not fully merged"
NotFullyMerged(r, branch) ==
  /\ r.mainWorktree # Undefined
  /\ branch # Undefined
  /\ r.options.deleteBranch
  /\ ~ r.options.forceDeleteBranch
  /\ FullBranchName(branch[1]) \notin DeletableBranches(r)

\* main, cmd === "delete": its own checks, then the call of deleteWorktree
DeleteCommand ==
  /\ repo.pc = "main"
  /\ repo' =
       IF repo.mainWorktree = Undefined
       THEN DeleteDies(repo, ExitNotFound, "No main worktree found")
       ELSE IF repo.target = Undefined
       THEN DeleteDies(repo, ExitNotFound, "Could not find the worktree to delete")
       ELSE IF repo.target = repo.mainWorktree
       THEN DeleteDies(repo, ExitNotFound, "Cannot delete the main worktree")
       ELSE [repo EXCEPT !.pc = "validate"]
  /\ UNCHANGED << git, loader >>
  /\ UNCHANGED engineVars

\* deleteWorktree up to the removal: the checks, and the branch to delete
DeleteValidate ==
  /\ repo.pc = "validate"
  /\ LET branch == IF repo.options.deleteBranch \/ repo.options.forceDeleteBranch
                   THEN Some(CurrentBranch(repo.target[1]))
                   ELSE Undefined
     IN repo' =
          IF repo.target = repo.mainWorktree /\ ~ repo.options.forceDeleteMain
          THEN DeleteDies(repo, ExitNotFound, "Cannot delete the main worktree")
          ELSE IF repo.target[1] \notin repo.worktrees
          THEN DeleteDies(repo, ExitNotFound, "Worktree not found")
          ELSE IF NotFullyMerged(repo, branch)
          THEN DeleteDies([repo EXCEPT !.branch = branch], ExitNotFound,
                          "Branch is not fully merged")
          ELSE [repo EXCEPT !.branch = branch, !.pc = "removeWorktree"]
  /\ UNCHANGED << git, loader >>
  /\ UNCHANGED engineVars

\* git worktree remove [--force]: git refuses a worktree with local
\* changes unless forced; the rejected command ends in main's catch block
DeleteRemoveWorktree ==
  /\ repo.pc = "removeWorktree"
  /\ repo' =
       IF repo.dirty /\ ~ repo.options.force
       THEN DeleteDies(repo, ExitUncaught, "git worktree remove failed")
       ELSE [repo EXCEPT !.worktrees = @ \ { repo.target[1] },
                         !.ops = Append(@, "worktree"),
                         !.pc = "removeBranch"]
  /\ UNCHANGED << git, loader >>
  /\ UNCHANGED engineVars

\* git branch -D / -d: -d refuses a branch that is not merged
DeleteRemoveBranch ==
  /\ repo.pc = "removeBranch"
  /\ repo' =
       IF repo.branch # Undefined
            /\ (repo.options.deleteBranch \/ repo.options.forceDeleteBranch)
       THEN IF repo.options.forceDeleteBranch \/ repo.branch[1].name \in repo.merged
            THEN [repo EXCEPT !.branches = @ \ { repo.branch[1].name },
                              !.ops = Append(@, "branch"),
                              !.pc = "done",
                              !.exitCode = 0]
            ELSE DeleteDies(repo, ExitUncaught, "git branch -d failed")
       ELSE [repo EXCEPT !.pc = "done", !.exitCode = 0]
  /\ UNCHANGED << git, loader >>
  /\ UNCHANGED engineVars

DeleteInit ==
  /\ config = MkConfig(Undefined, Undefined, Undefined)
  /\ request = Undefined
  /\ pc = "main"
  /\ stack = << >>
  /\ child = Undefined
  /\ listeners = << >>
  /\ nextId = 1
  /\ spawned = << >>
  /\ log = << >>
  /\ kills = << >>
  /\ exitCode = -1
  /\ interrupts = 0
  /\ displayInfo = TRUE
  /\ banners = << >>
  /\ warnings = << >>
  /\ git = [ env |-> Undefined, defaultBranch |-> Some("main"), mainBranch |-> Undefined ]
  /\ loader = [ raw |-> << >>, result |-> Undefined, done |-> FALSE ]
  /\ \E target \in TargetWorktrees, mainWorktree \in { Undefined, Some("/repo/main") },
        flags \in DeleteFlags, merged \in { { "main" }, { "main", "feat" } },
        dirty \in BOOLEAN :
       repo = DeleteRequest(target, mainWorktree, flags, merged, dirty)

DeleteNext ==
  \/ DeleteCommand
  \/ DeleteValidate
  \/ DeleteRemoveWorktree
  \/ DeleteRemoveBranch

DeleteSpec == DeleteInit /\ [][DeleteNext]_vars

(* ------------------------------------------------------------------ *)
(* Reading the history.                                                 *)
(* ------------------------------------------------------------------ *)
Last(path) == path[Len(path)]

Parent(path) == SubSeq(path, 1, Len(path) - 1)

\* the path of the task after / before `path` in the same loop
NextSibling(path) == [path EXCEPT ![Len(path)] = @ + 1]

PrevSibling(path) == [path EXCEPT ![Len(path)] = @ - 1]

\* path q names a later task of the loop that contains the task at p, or
\* a task below such a task
AfterInSameLoop(p, q) ==
  /\ Len(q) >= Len(p)
  /\ SubSeq(q, 1, Len(p) - 1) = Parent(p)
  /\ q[Len(p)] > Last(p)

Requested == request[1]

\* the task is one whose execution ends in die(1, ...)
IsFatalTask(t) ==
  \/ t.type \notin { "action", "shell" }
  \/ t.type = "action" /\ t.action \notin DOMAIN config

\* the engine stands at the task after the one at path p, or the loop that
\* contained p was the outermost one and the invocation is over
ContinuesAfter(p) ==
  \/ pc = "run" /\ PathOf(stack) = NextSibling(p)
  \/ pc = "done" /\ Len(p) = 1
  \/ pc = "killed" /\ PathOf(stack) = NextSibling(p)

(* ------------------------------------------------------------------ *)
(* C1.  An action name that is not a key of the configuration makes the *)
(* invocation end in ActionNotFound (die with status 1) with no task    *)
(* started and no shell process spawned.                                *)
(* ------------------------------------------------------------------ *)
C1_ActionNotFound ==
  (request # Undefined /\ Requested.actionName \notin DOMAIN config) =>
     /\ pc = "exited"
     /\ exitCode = 1
     /\ stack = << >>
     /\ log = << >>
     /\ spawned = << >>
     /\ child = Undefined
     /\ listeners = << >>

C1_Witness ==
  /\ request # Undefined
  /\ Requested.actionName \notin DOMAIN config
  /\ pc = "exited"

(* ------------------------------------------------------------------ *)
(* C2.  A failure of a task whose stop_on_error is false is swallowed:  *)
(* it is never rethrown, the next task of the same action is what       *)
(* happens next, and the invocation fails only when some failure was    *)
(* rethrown by the outermost loop.                                      *)
(* ------------------------------------------------------------------ *)
C2_SuppressedFailureContinues ==
  /\ \A k \in 1..Len(log) :
       (log[k].kind \in { "ignored", "thrown" }
          /\ log[k].task.stop_on_error = Some(FALSE)) =>
         /\ log[k].kind = "ignored"
         /\ IF k = Len(log)
            THEN ContinuesAfter(log[k].at)
            ELSE \/ /\ log[k + 1].kind = "start"
                    /\ log[k + 1].at = NextSibling(log[k].at)
                 \/ /\ log[k + 1].kind = "ok"
                    /\ log[k + 1].at = Parent(log[k].at)
                    /\ Last(log[k].at) + 1 = Len(config[log[k].action].tasks)
  /\ (pc = "exited" /\ exitCode = 3) =>
        \E k \in 1..Len(log) : log[k].kind = "thrown" /\ Len(log[k].at) = 1

\* "top" is [ref mid, fail(stop_on_error=false), succeed]: the failure of
\* its second task was ignored, the third ran and the invocation succeeded
C2_Witness ==
  /\ pc = "done"
  /\ exitCode = 0
  /\ \E k \in 1..Len(log) :
       /\ k + 2 <= Len(log)
       /\ log[k].kind = "ignored" /\ log[k].at = << 1 >> /\ log[k].action = "top"
       /\ log[k + 1].kind = "start" /\ log[k + 1].at = << 2 >>
       /\ log[k + 2].kind = "ok" /\ log[k + 2].at = << 2 >>

(* ------------------------------------------------------------------ *)
(* C3.  A failure of a task whose stop_on_error is true or absent is    *)
(* rethrown: no later task of the same action (nor anything below one)  *)
(* is ever started, and an invocation whose outermost loop rethrew      *)
(* never succeeds.                                                      *)
(* ------------------------------------------------------------------ *)
C3_UnsuppressedFailureStops ==
  /\ \A k \in 1..Len(log) :
       (log[k].kind \in { "ignored", "thrown" }
          /\ log[k].task.stop_on_error # Some(FALSE)) =>
         /\ log[k].kind = "thrown"
         /\ \A j \in (k + 1)..Len(log) : ~ AfterInSameLoop(log[k].at, log[j].at)
         /\ ~ (pc \in { "run", "await" } /\ AfterInSameLoop(log[k].at, PathOf(stack)))
  /\ (\E k \in 1..Len(log) : log[k].kind = "thrown" /\ Len(log[k].at) = 1) =>
        /\ pc \in { "throw", "exited" }
        /\ pc = "exited" => exitCode = 3

\* "lost" is [fail(p), ref nope, succeed]: with p true or absent the first
\* task failed, nothing else started and main ended with status 3
C3_Witness ==
  /\ pc = "exited"
  /\ exitCode = 3
  /\ Requested.actionName = "lost"
  /\ Len(log) = 2
  /\ log[2].kind = "thrown" /\ log[2].at = << 0 >>
  /\ Len(spawned) = 1

(* ------------------------------------------------------------------ *)
(* C4.  A rethrown failure goes to the catch block of the action        *)
(* reference that called the failing action, one caller at a time: each *)
(* caller rethrows it unless its own stop_on_error is false, in which   *)
(* case it is ignored there and that caller's next task follows (or,    *)
(* when it was the last task of its action, that action returns); a     *)
(* failure rethrown by the outermost loop ends the invocation with      *)
(* main's failure status.                                               *)
(* ------------------------------------------------------------------ *)
C4_FailurePropagatesToNearestSuppressor ==
  \A k \in 1..Len(log) :
    log[k].kind = "thrown" =>
      IF Len(log[k].at) = 1
      THEN /\ k = Len(log)
           /\ \/ pc = "throw" /\ PathOf(stack) = log[k].at
              \/ pc = "exited" /\ exitCode = 3 /\ stack = << >>
      ELSE IF k = Len(log)
           THEN pc = "throw" /\ PathOf(stack) = log[k].at
           ELSE /\ log[k + 1].at = Parent(log[k].at)
                /\ log[k + 1].task.type = "action"
                /\ log[k + 1].kind =
                     (IF log[k + 1].task.stop_on_error = Some(FALSE)
                      THEN "ignored" ELSE "thrown")
                /\ log[k + 1].kind = "ignored" =>
                     IF k + 1 = Len(log)
                     THEN ContinuesAfter(log[k + 1].at)
                     ELSE \/ /\ log[k + 2].kind = "start"
                             /\ log[k + 2].at = NextSibling(log[k + 1].at)
                          \/ /\ log[k + 2].kind = "ok"
                             /\ log[k + 2].at = Parent(log[k + 1].at)
                             /\ Last(log[k + 1].at) + 1
                                  = Len(config[log[k + 1].action].tasks)

\* top -> mid -> leaf: the first task of leaf failed and was rethrown by
\* leaf and by mid, top's reference (stop_on_error=false) ignored it and
\* top's next task started
C4_Witness ==
  \E k \in 1..Len(log) :
    /\ k + 3 <= Len(log)
    /\ log[k].kind = "thrown" /\ log[k].at = << 0, 0, 0 >>
    /\ log[k + 1].kind = "thrown" /\ log[k + 1].at = << 0, 0 >>
    /\ log[k + 2].kind = "ignored" /\ log[k + 2].at = << 0 >>
    /\ log[k + 3].kind = "start" /\ log[k + 3].at = << 1 >>

(* ------------------------------------------------------------------ *)
(* C5.  A task that ends in a fatal failure (a reference to an action   *)
(* that is not configured, or a task of an unknown type) ends the host  *)
(* process with status 1 on the spot, whatever stop_on_error says for   *)
(* it or for any caller: nothing happens after it.                      *)
(* ------------------------------------------------------------------ *)
C5_FatalAlwaysTerminates ==
  \A k \in 1..Len(log) :
    (log[k].kind = "start" /\ IsFatalTask(log[k].task)) =>
       /\ k = Len(log)
       /\ pc = "exited"
       /\ exitCode = 1
       /\ child = Undefined
       /\ PathOf(stack) = log[k].at

\* wrap -> odd: the task of unknown type has stop_on_error=false and so
\* has the reference to odd, and the host process ended all the same
C5_Witness ==
  /\ pc = "exited"
  /\ exitCode = 1
  /\ Len(stack) = 2
  /\ IsFatalTask(TaskAt(stack[2]))
  /\ \A k \in 1..2 : TaskAt(stack[k]).stop_on_error = Some(FALSE)

\* lost -> nope: the reference to the missing action has stop_on_error=false
C5_WitnessNotFound ==
  /\ pc = "exited"
  /\ exitCode = 1
  /\ Len(stack) >= 1
  /\ TaskAt(Top).type = "action"
  /\ TaskAt(Top).action \notin DOMAIN config
  /\ TaskAt(Top).stop_on_error = Some(FALSE)

(* ------------------------------------------------------------------ *)
(* C6.  The invocation made by an action reference runs with the task's *)
(* own args when the task has some, and with the caller's args          *)
(* otherwise; the outermost invocation runs with the requested args.    *)
(* ------------------------------------------------------------------ *)
C6_NestedArgs ==
  /\ (stack # << >>) => stack[1].args = Requested.args
  /\ \A k \in 2..Len(stack) :
       stack[k].args = IF TaskAt(stack[k - 1]).args # Undefined
                       THEN TaskAt(stack[k - 1]).args[1]
                       ELSE stack[k - 1].args
  /\ \A k \in 1..Len(spawned) :
       (spawned[k].at = << 0, 0, 0 >> /\ Requested.actionName = "top"
          /\ spawned[k].shell = "bash") => spawned[k].argv = << "--foo" >>

\* top (called with x y) -> mid (override --foo) -> leaf (no override)
C6_Witness ==
  /\ Len(stack) = 3
  /\ Requested.args = << "x", "y" >>
  /\ stack[1].args = << "x", "y" >>
  /\ TaskAt(stack[1]).args = Some(<< "--foo" >>)
  /\ stack[2].args = << "--foo" >>
  /\ TaskAt(stack[2]).args = Undefined
  /\ stack[3].args = << "--foo" >>
  /\ pc = "await"

(* ------------------------------------------------------------------ *)
(* C7.  Every spawned shell task sees GIT_WP_ACTION_NAME equal to the   *)
(* name of the action that contains the task.                           *)
(* ------------------------------------------------------------------ *)
C7_ActionNameIsContainingAction ==
  \A k \in 1..Len(spawned) :
    spawned[k].env.GIT_WP_ACTION_NAME = spawned[k].action

(* ------------------------------------------------------------------ *)
(* C8.  A SIGINT listener is registered only for the child that is      *)
(* running: once a child has terminated, however it did, its listener   *)
(* is gone.                                                             *)
(* ------------------------------------------------------------------ *)
C8_ListenerRemovedOnEveryExit ==
  \A k \in 1..Len(listeners) :
    child # Undefined /\ child[1].id = listeners[k]

(* ------------------------------------------------------------------ *)
(* C9.  A SIGINT that reaches the host while a child runs is forwarded  *)
(* to that child and the engine stays where it is, awaiting the child;  *)
(* it leaves the await only when the child has exited, and the failed   *)
(* exit of a signalled child goes through the task's catch block: next  *)
(* task when stop_on_error is false, rethrown otherwise.                *)
(* ------------------------------------------------------------------ *)
C9_InterruptForwardedThenPolicy ==
  [][ /\ (pc = "await" /\ interrupts' # interrupts) =>
            /\ child' = Some([child[1] EXCEPT !.signalled = TRUE])
            /\ pc' = "await"
            /\ stack' = stack
            /\ log' = log
            /\ spawned' = spawned
            /\ \E j \in (Len(kills) + 1)..Len(kills') :
                 kills'[j] = [id |-> child[1].id, alive |-> TRUE]
      /\ (pc = "await" /\ pc' # "await") => child' = Undefined
      /\ (pc = "await" /\ child[1].signalled /\ child' = Undefined
            /\ log'[Len(log')].kind # "ok") =>
            /\ Len(log') = Len(log) + 1
            /\ log'[Len(log')].at = PathOf(stack)
            /\ IF TaskAt(Top).stop_on_error = Some(FALSE)
               THEN /\ log'[Len(log')].kind = "ignored"
                    /\ pc' = "run"
                    /\ PathOf(stack') = NextSibling(PathOf(stack))
               ELSE /\ log'[Len(log')].kind = "thrown"
                    /\ pc' = "throw"
                    /\ stack' = stack
    ]_vars

\* a child that got the forwarded SIGINT failed, its task had
\* stop_on_error=false and the next task of the action was started
C9_Witness ==
  \E s \in 1..Len(spawned), j \in 1..Len(kills), k \in 1..Len(log) :
    /\ kills[j].id = spawned[s].id
    /\ kills[j].alive
    /\ k < Len(log)
    /\ log[k].kind = "ignored"
    /\ log[k].at = spawned[s].at
    /\ log[k + 1].kind = "start"
    /\ log[k + 1].at = NextSibling(spawned[s].at)

(* ------------------------------------------------------------------ *)
(* C10.  Tasks start in index order, depth first: the first task of the *)
(* outermost action starts first; the first task of a nested action     *)
(* starts right after the reference that calls it; any other task       *)
(* starts right after the task before it has finished (succeeded or     *)
(* had its failure ignored), which for a reference is after the whole   *)
(* nested action.  For a = [ref b, 'echo hi'], b = ['echo nested'] the  *)
(* scripts run are 'echo nested' then 'echo hi'.                        *)
(* ------------------------------------------------------------------ *)
C10_SequentialDepthFirst ==
  /\ \A k \in 1..Len(log) :
       log[k].kind = "start" =>
         IF Last(log[k].at) = 0
         THEN IF Len(log[k].at) = 1
              THEN k = 1
              ELSE /\ k > 1
                   /\ log[k - 1].kind = "start"
                   /\ log[k - 1].task.type = "action"
                   /\ log[k - 1].at = Parent(log[k].at)
         ELSE /\ k > 1
              /\ log[k - 1].kind \in { "ok", "ignored" }
              /\ log[k - 1].at = PrevSibling(log[k].at)
  /\ \A k \in 1..Len(spawned) :
       \E j \in 1..Len(log) :
         /\ log[j].kind = "start"
         /\ log[j].at = spawned[k].at
         /\ \A i \in 1..(k - 1) :
              \E h \in 1..(j - 1) : log[h].kind = "start" /\ log[h].at = spawned[i].at
  /\ (pc = "done" /\ Requested.actionName = "a") =>
        [k \in 1..Len(spawned) |-> spawned[k].script] = << "echo nested", "echo hi" >>

C10_Witness ==
  /\ pc = "done"
  /\ Requested.actionName = "a"
  /\ Len(spawned) = 2
  /\ spawned[1].script = "echo nested" /\ spawned[1].action = "b"
  /\ spawned[2].script = "echo hi" /\ spawned[2].action = "a"

(* ------------------------------------------------------------------ *)
(* C11.  Only the outermost invocation runs with nested = false, every  *)
(* invocation made by an action reference runs with nested = true at    *)
(* any depth, and a banner printed for a nested invocation is in the    *)
(* nested style, never in the outer one.                                *)
(* ------------------------------------------------------------------ *)
C11_NestedFlagAndStyle ==
  /\ \A k \in 1..Len(stack) : stack[k].nested = (k > 1)
  /\ \A j \in 1..Len(banners) :
       /\ banners[j].nested = (banners[j].depth > 1)
       /\ banners[j].style = IF banners[j].depth > 1 THEN "nested" ELSE "outer"

\* top -> mid -> leaf: the banner of leaf, two references down
C11_Witness ==
  /\ Len(stack) = 3
  /\ stack[3].nested
  /\ \E j \in 1..Len(banners) :
       /\ banners[j].depth = 3
       /\ banners[j].action = "leaf"
       /\ banners[j].style = "nested"

(* ------------------------------------------------------------------ *)
(* C12.  With output enabled, an invocation gets its banner exactly     *)
(* when it is not silent, where silent is the override of the call when *)
(* given, else the silent flag of the action, else false.               *)
(* ------------------------------------------------------------------ *)
IsSilent(frame) ==
  IF frame.silent # Undefined THEN frame.silent[1]
  ELSE IF config[frame.actionName].silent # Undefined
       THEN config[frame.actionName].silent[1]
       ELSE FALSE

HasBanner(k) ==
  \E j \in 1..Len(banners) :
    banners[j].depth = k /\ banners[j].action = stack[k].actionName

C12_BannerUnlessSilent ==
  displayInfo =>
    \A k \in 1..Len(stack) :
      HasAction(config, stack[k].actionName) => (HasBanner(k) <=> ~ IsSilent(stack[k]))

(* ------------------------------------------------------------------ *)
(* C13.  A task failure that propagates out of the outermost invocation *)
(* ends the program with a non-zero status that is neither the status   *)
(* of action-not-found nor the status of a usage error; a successful    *)
(* invocation ends with none of these statuses.                         *)
(* ------------------------------------------------------------------ *)
PropagatedFailure ==
  /\ pc = "exited"
  /\ \E k \in 1..Len(log) : log[k].kind = "thrown" /\ Len(log[k].at) = 1

NotFoundFailure ==
  /\ pc = "exited"
  /\ request # Undefined
  /\ \/ Requested.actionName \notin DOMAIN config
     \/ /\ stack # << >>
        /\ TaskAt(Top).type = "action"
        /\ TaskAt(Top).action \notin DOMAIN config
        /\ ~ PropagatedFailure

UsageFailure == pc = "exited" /\ request = Undefined

C13_ExitStatuses ==
  /\ PropagatedFailure =>
       /\ exitCode # 0
       /\ exitCode # ExitNotFound
       /\ exitCode # ExitUsage
  /\ NotFoundFailure => exitCode = ExitNotFound
  /\ UsageFailure => exitCode = ExitUsage
  /\ pc = "done" =>
       /\ exitCode = 0
       /\ exitCode \notin { ExitNotFound, ExitUsage, ExitUncaught }

\* top: its last task (stop_on_error absent) failed and main ended with 3
C13_Witness ==
  /\ PropagatedFailure
  /\ Requested.actionName = "top"
  /\ log[Len(log)].at = << 2 >>
  /\ exitCode = 3

C13_WitnessUsage == UsageFailure /\ exitCode = 1

(* ------------------------------------------------------------------ *)
(* C14.  Every shell task, bash or nushell, gets the arguments of its   *)
(* invocation as its positional parameters, one per argument, in order. *)
(* ------------------------------------------------------------------ *)
C14_ArgsArePositionalParameters ==
  \A k \in 1..Len(spawned) : spawned[k].argv = spawned[k].args

(* ------------------------------------------------------------------ *)
(* C15.  retrieveMainBranch returns GIT_WP_MAIN_BRANCH when it is set,  *)
(* else git's init.defaultBranch when it is configured, else "main",    *)
(* and does not fail in any of the three cases.                         *)
(* ------------------------------------------------------------------ *)
C15_MainBranchPrecedence ==
  git.mainBranch # Undefined =>
    /\ ~ git.mainBranch[1].threw
    /\ git.mainBranch[1].value =
         IF git.env # Undefined THEN git.env[1]
         ELSE IF git.defaultBranch # Undefined THEN git.defaultBranch[1]
         ELSE "main"

(* ------------------------------------------------------------------ *)
(* C16.  The loader accepts DEFAULT_CONFIG and every configuration      *)
(* whose tasks are written in a shorthand form, and every task it       *)
(* returns is tagged: { action: X } comes back as exactly               *)
(* { type: "action", action: X } and { bash: S } as a task of type      *)
(* "bash" with script S.                                                *)
(* ------------------------------------------------------------------ *)
IsShorthandAction(raw) == raw.type = Undefined /\ NonEmptyString(raw.action)

IsShorthandBash(raw) ==
  raw.type = Undefined /\ raw.action = Undefined /\ NonEmptyString(raw.bash)

C16_LoaderNormalizesShorthand ==
  loader.done =>
    /\ loader.raw = DefaultConfigRaw => loader.result # Undefined
    /\ (\A n \in DOMAIN loader.raw : \A k \in 1..Len(loader.raw[n].tasks) :
          IsShorthandAction(loader.raw[n].tasks[k]) \/ IsShorthandBash(loader.raw[n].tasks[k]))
         => loader.result # Undefined
    /\ loader.result # Undefined =>
         \A n \in DOMAIN loader.raw : \A k \in 1..Len(loader.raw[n].tasks) :
           LET raw == loader.raw[n].tasks[k]
               got == loader.result[1][n].tasks[k]
           IN /\ got.type \in { "action", "bash" }
              /\ got.type = "action" => NonEmptyString(got.action) /\ got.script = Undefined
              /\ got.type = "bash" => NonEmptyString(got.script) /\ got.action = Undefined
              /\ IsShorthandAction(raw) =>
                   got = ParsedTask("action", raw.action, Undefined, Undefined, Undefined)
              /\ IsShorthandBash(raw) =>
                   got = ParsedTask("bash", Undefined, Undefined, Undefined, raw.bash)

\* DEFAULT_CONFIG was read: its first task { action: action2 } came back
\* as { type: "action", action: "action2" }
C16_Witness ==
  /\ loader.done
  /\ loader.raw = DefaultConfigRaw
  /\ loader.result # Undefined
  /\ loader.result[1]["action1"].tasks[1] =
       ParsedTask("action", Some("action2"), Undefined, Undefined, Undefined)
  /\ loader.result[1]["action2"].tasks[1].type = "bash"

(* ------------------------------------------------------------------ *)
(* C17.  Argument overrides cascade down the call tree: an action       *)
(* receives the override of the nearest enclosing action reference      *)
(* that has one (the arguments of the request when none has), however   *)
(* deep it is; and all the tasks of one loop see the same arguments,    *)
(* so an overriding task changes nothing for its later siblings.        *)
(* ------------------------------------------------------------------ *)
RECURSIVE ContainingAction(_)
\* the action whose loop contains the task named by path
ContainingAction(path) ==
  IF Len(path) <= 1
  THEN Requested.actionName
  ELSE config[ContainingAction(Parent(path))].tasks[path[Len(path) - 1] + 1].action

TaskOn(path) == config[ContainingAction(path)].tasks[Last(path) + 1]

\* the enclosing action references of the task at path that override args
Overriders(path) ==
  { i \in 1..(Len(path) - 1) : TaskOn(SubSeq(path, 1, i)).args # Undefined }

NearestOverride(path) ==
  LET over == Overriders(path)
  IN IF over = {}
     THEN Requested.args
     ELSE LET i == CHOOSE i \in over : \A j \in over : j <= i
          IN TaskOn(SubSeq(path, 1, i)).args[1]

C17_OverridesCascade ==
  /\ \A k \in 1..Len(stack) :
       stack[k].args = NearestOverride(PathOf(SubSeq(stack, 1, k)))
  /\ \A k \in 1..Len(spawned) :
       spawned[k].args = NearestOverride(spawned[k].at)
  /\ \A k, l \in 1..Len(spawned) :
       Parent(spawned[k].at) = Parent(spawned[l].at) => spawned[k].args = spawned[l].args

\* top was called with x y: the task of leaf, two levels below the
\* override --foo of top's first task, ran with --foo, and top's second
\* task ran afterwards with x y
C17_Witness ==
  /\ request # Undefined
  /\ Requested.actionName = "top"
  /\ Requested.args = << "x", "y" >>
  /\ \E k, l \in 1..Len(spawned) :
       /\ k < l
       /\ spawned[k].at = << 0, 0, 0 >>
       /\ spawned[k].args = << "--foo" >>
       /\ spawned[l].at = << 1 >>
       /\ spawned[l].args = << "x", "y" >>

(* ------------------------------------------------------------------ *)
(* C18.  At every moment at most one task is being executed and at      *)
(* most one child process is alive: the tasks that have started and     *)
(* not ended are one shell task at most, and the action references      *)
(* whose recursive call encloses it; no two of them are siblings or     *)
(* lie in different branches of the call tree.                          *)
(* ------------------------------------------------------------------ *)
\* the task started at entry k of the history has not ended
Running(k) ==
  /\ log[k].kind = "start"
  /\ ~ \E l \in (k + 1)..Len(log) :
         log[l].at = log[k].at /\ log[l].kind \in { "ok", "ignored", "thrown" }

\* the task at p is an action reference whose call contains the task at q
Encloses(p, q) == Len(p) < Len(q) /\ SubSeq(q, 1, Len(p)) = p

\* the children that were spawned and whose task has not ended
RunningTasks == { k \in 1..Len(log) : Running(k) }

AliveChildren ==
  LET run == RunningTasks
  IN { k \in 1..Len(spawned) : \E l \in run : log[l].at = spawned[k].at }

C18_OneTaskAtATime ==
  LET run   == RunningTasks
      alive == AliveChildren
  IN /\ \A k, l \in run :
          k < l => log[k].task.type = "action" /\ Encloses(log[k].at, log[l].at)
     /\ Cardinality({ k \in run : log[k].task.type = "shell" }) <= 1
     /\ Cardinality(alive) <= 1
     /\ child # Undefined =>
          alive = { k \in 1..Len(spawned) : spawned[k].id = child[1].id }

\* the second task of leaf runs, two calls below the request, after the
\* first one has ended
C18_Witness ==
  /\ pc = "await"
  /\ Len(stack) = 3
  /\ PathOf(stack) = << 0, 0, 1 >>
  /\ Len(spawned) = 2
  /\ Cardinality(AliveChildren) = 1
  /\ Cardinality({ k \in 1..Len(log) : Running(k) }) = 3

(* ------------------------------------------------------------------ *)
(* C19.  While no shell task is running (before the first task,         *)
(* between tasks, after an ignored failure, in a nested action that     *)
(* has not spawned yet) no SIGINT listener is registered, and a SIGINT  *)
(* that arrives then terminates the host: no listener of the engine     *)
(* runs.                                                                *)
(* ------------------------------------------------------------------ *)
C19_NoHandlerWhenIdle ==
  [][ /\ (child = Undefined /\ pc \in { "run", "throw" }) => listeners = << >>
      /\ (child = Undefined /\ interrupts' # interrupts) =>
            /\ pc' = "killed"
            /\ kills' = kills
    ]_vars

(* ------------------------------------------------------------------ *)
(* C20.  A SIGINT that arrives while a shell task runs is forwarded to  *)
(* exactly one process, the running child: one listener runs per        *)
(* SIGINT, and the listener of a child that has exited (one whose       *)
(* failure was ignored included) never runs.                            *)
(* ------------------------------------------------------------------ *)
C20_OneHandlerPerInterrupt ==
  /\ Len(kills) <= interrupts
  /\ \A j \in 1..Len(kills) : kills[j].alive

(* ------------------------------------------------------------------ *)
(* C21.  The silent override of a nested invocation is the silent       *)
(* field of the action reference that makes the call and nothing else:  *)
(* neither the caller's own override nor the caller action's flag is    *)
(* handed down, so under a task without a silent field the value the    *)
(* nested action tests is its own silent flag.                          *)
(* ------------------------------------------------------------------ *)
C21_SilentIsTheTasksOwn ==
  \A k \in 2..Len(stack) :
    LET task   == TaskAt(stack[k - 1])
        nested == config[stack[k].actionName]
    IN /\ stack[k].silent = task.silent
       /\ task.silent = Undefined =>
            SilentFlag(stack[k], nested) = (nested.silent = Some(TRUE))
       /\ task.silent # Undefined =>
            SilentFlag(stack[k], nested) = (task.silent = Some(TRUE))

\* top -> mid with the override silent=false, mid -> leaf without a silent
\* field: leaf is called with no override although its caller had one and
\* the caller's action flag is set
C21_Witness ==
  /\ Len(stack) = 3
  /\ stack[1].actionName = "top"
  /\ stack[2].silent = Some(FALSE)
  /\ config[stack[2].actionName].silent = Some(TRUE)
  /\ TaskAt(stack[2]).silent = Undefined
  /\ stack[3].silent = Undefined
  /\ SilentFlag(stack[3], config[stack[3].actionName])
  /\ ~ SilentFlag(stack[2], config[stack[2].actionName])

(* ------------------------------------------------------------------ *)
(* C22.  The environment map is built once, by the outermost            *)
(* invocation, and every nested invocation works on that same map:      *)
(* all shell tasks of the call tree see the same value for every        *)
(* GIT_WP_* variable other than the two action-name variables, and      *)
(* spawning a task leaves the shared map as it was built.               *)
(* ------------------------------------------------------------------ *)
\* the map as the outermost invocation builds it
RequestedEnv == BuildEnv(Requested.actionName, "/repo/wt", Requested.branch, "/repo/main")

SharedKeys == DOMAIN RequestedEnv \ { "GIT_WP_ACTION", "GIT_WP_ACTION_NAME" }

C22_EnvBuiltOnceAndShared ==
  /\ \A k \in 1..Len(stack) :
       /\ stack[k].built = (k = 1)
       /\ stack[k].env = RequestedEnv
  /\ \A k \in 1..Len(spawned) :
       /\ DOMAIN spawned[k].env = DOMAIN RequestedEnv
       /\ \A key \in SharedKeys : spawned[k].env[key] = RequestedEnv[key]

\* top on branch feat: a task of leaf, two calls down, and a task of top
\* were both spawned, under different GIT_WP_ACTION values, and the frame
\* of top still holds the map as built
C22_Witness ==
  /\ Len(stack) = 1
  /\ stack[1].actionName = "top"
  /\ Requested.branch = "feat"
  /\ stack[1].env = RequestedEnv
  /\ \E k, l \in 1..Len(spawned) :
       /\ spawned[k].at = << 0, 0, 0 >>
       /\ spawned[l].at = << 1 >>
       /\ spawned[k].env.GIT_WP_ACTION # spawned[l].env.GIT_WP_ACTION
       /\ spawned[k].env.GIT_WP_BRANCH_NAME = "feat"
       /\ spawned[l].env.GIT_WP_BRANCH_NAME = "feat"

(* ------------------------------------------------------------------ *)
(* C23.  As stated: every ignored failure (stop_on_error=false) writes  *)
(* exactly one warning, which names the index of the failing task in    *)
(* its action, and a failure that is rethrown writes none at that       *)
(* level, whatever the verbosity flag is.                               *)
(* ------------------------------------------------------------------ *)
WarningsFor(p) == { w \in 1..Len(warnings) : warnings[w].at = p }

C23_OneWarningPerIgnoredFailure ==
  \A k \in 1..Len(log) :
    /\ log[k].kind = "ignored" =>
         /\ Cardinality(WarningsFor(log[k].at)) = 1
         /\ \A w \in WarningsFor(log[k].at) : warnings[w].idx = Last(log[k].at)
    /\ log[k].kind = "thrown" => WarningsFor(log[k].at) = {}

(* C23, amended.  With the verbosity flag on, every ignored failure     *)
(* writes exactly one warning naming the index of the failing task;     *)
(* with --quiet it writes none; a rethrown failure writes none at that  *)
(* level in either case.                                                *)
C23_OneWarningUnlessQuiet ==
  \A k \in 1..Len(log) :
    /\ log[k].kind = "ignored" =>
         /\ Cardinality(WarningsFor(log[k].at)) = (IF displayInfo THEN 1 ELSE 0)
         /\ \A w \in WarningsFor(log[k].at) : warnings[w].idx = Last(log[k].at)
    /\ log[k].kind = "thrown" => WarningsFor(log[k].at) = {}

\* a failure was rethrown by leaf and by mid and ignored by the first
\* task of top: one warning, for task #0 of top; and a later failure of
\* top's second task gave the warning for task #1
C23_Witness ==
  /\ displayInfo
  /\ Len(warnings) = 2
  /\ warnings[1] = [ idx |-> 0, at |-> << 0 >>, action |-> "top" ]
  /\ warnings[2] = [ idx |-> 1, at |-> << 1 >>, action |-> "top" ]
  /\ \E k \in 1..Len(log) : log[k].kind = "thrown" /\ log[k].at = << 0, 0 >>

(* ------------------------------------------------------------------ *)
(* C26.  In the environment of every spawned shell task, at every       *)
(* depth, each deprecated alias has the value of its canonical          *)
(* variable: GIT_WP_ACTION = GIT_WP_ACTION_NAME, GIT_WP_BRANCH =        *)
(* GIT_WP_BRANCH_NAME, GIT_WP_PROJECT = GIT_WP_PROJECT_NAME,            *)
(* GIT_WP_WORKTREE = GIT_WP_WORKTREE_PATH.                              *)
(* ------------------------------------------------------------------ *)
C26_AliasesAgree ==
  \A k \in 1..Len(spawned) :
    LET env == spawned[k].env
    IN /\ env.GIT_WP_ACTION = env.GIT_WP_ACTION_NAME
       /\ env.GIT_WP_BRANCH = env.GIT_WP_BRANCH_NAME
       /\ env.GIT_WP_PROJECT = env.GIT_WP_PROJECT_NAME
       /\ env.GIT_WP_WORKTREE = env.GIT_WP_WORKTREE_PATH

(* ------------------------------------------------------------------ *)
(* C24.  Every task the loader produces is one of the two variants      *)
(* the engine recognises: on a configuration that main got from the     *)
(* loader, the engine never starts a task that is neither an action     *)
(* reference nor a shell task, so it never ends on "Unknown task type". *)
(* ------------------------------------------------------------------ *)
C24_LoadedTasksAreRecognized ==
  config \in LoadedConfigs =>
    /\ \A k \in 1..Len(log) : log[k].task.type \in { "action", "shell" }
    /\ ~ (pc = "exited" /\ log # << >> /\ log[Len(log)].kind = "start"
            /\ log[Len(log)].task.type \notin { "action", "shell" })

(* ------------------------------------------------------------------ *)
(* C25.  A task written in a shorthand shape keeps its policy fields    *)
(* through the loader: the task the engine gets has the stop_on_error   *)
(* of the written task, and the args for an action reference, so a      *)
(* shorthand task with stop_on_error: false is one whose failure the    *)
(* engine ignores.                                                      *)
(* ------------------------------------------------------------------ *)
C25_ShorthandKeepsPolicy ==
  (loader.done /\ loader.result # Undefined) =>
    \A n \in DOMAIN loader.raw : \A k \in 1..Len(loader.raw[n].tasks) :
      LET raw == loader.raw[n].tasks[k]
          got == loader.result[1][n].tasks[k]
      IN (IsShorthandAction(raw) \/ IsShorthandBash(raw)) =>
           /\ got.stop_on_error = raw.stop_on_error
           /\ Suppresses(AsEngineTask(got)) = (raw.stop_on_error = Some(FALSE))
           /\ (IsShorthandAction(raw) /\ raw.args # Undefined /\ raw.args[1].isArray) =>
                 got.args = Some(raw.args[1].items)

(* ------------------------------------------------------------------ *)
(* C28.  There is no cycle detection: when an action that refers to     *)
(* itself, directly or through other actions, is invoked and every      *)
(* task before the reference succeeds or has its failure ignored, the   *)
(* invocation reaches no terminal state: no call of the cycle ever      *)
(* returns, every reference adds a level to the call stack, and the     *)
(* same action is entered again and again.                              *)
(* ------------------------------------------------------------------ *)
CycleOf(name) == IF name = "loop" THEN { "loop" } ELSE { "ping", "pong" }

\* the action references started so far
CallsStarted == { k \in 1..Len(log) : log[k].task.type = "action" }

C28_NoCycleDetection ==
  ( /\ config = CyclicConfig
    /\ request # Undefined
    /\ Requested.actionName \in { "loop", "ping" }
    /\ pc # "killed"
    /\ \A k \in 1..Len(log) : log[k].kind # "thrown" ) =>
      /\ pc \in { "run", "await" }
      /\ \A k \in CallsStarted : log[k].kind = "start"
      /\ Len(stack) = 1 + Cardinality(CallsStarted)
      /\ \A k \in 1..Len(stack) :
           /\ stack[k].actionName \in CycleOf(Requested.actionName)
           /\ stack[k].idx < Len(TasksOf(stack[k]))
      /\ \A k \in 1..(Len(stack) - Cardinality(CycleOf(Requested.actionName))) :
           stack[k + Cardinality(CycleOf(Requested.actionName))].actionName
             = stack[k].actionName

\* loop has called itself down to the depth explored, after the failure
\* of its first task was ignored at the outermost level
C28_Witness ==
  /\ config = CyclicConfig
  /\ Len(stack) = MaxDepth
  /\ \A k \in 1..Len(stack) : stack[k].actionName = "loop"
  /\ \E k \in 1..Len(log) : log[k].kind = "ignored" /\ log[k].at = << 0 >>
  /\ pc = "await"

(* ------------------------------------------------------------------ *)
(* C27.  For a configuration whose action references form no cycle,    *)
(* and provided every spawned process eventually exits, an invocation   *)
(* eventually terminates (it returns, or ends on a propagated failure   *)
(* or a fatal error), and no task is started twice in one entry of its  *)
(* action.                                                              *)
(* ------------------------------------------------------------------ *)
\* the configured actions that the tasks of action n refer to
Refs(cfg, n) ==
  { cfg[n].tasks[k].action :
      k \in { i \in 1..Len(cfg[n].tasks) : cfg[n].tasks[i].type = "action" } }
    \cap DOMAIN cfg

RECURSIVE ReachWithin(_, _, _)
\* the actions reached from those of S by at most k further references
ReachWithin(cfg, S, k) ==
  IF k = 0 THEN S
  ELSE ReachWithin(cfg, S \cup UNION { Refs(cfg, n) : n \in S }, k - 1)

Acyclic(cfg) ==
  \A n \in DOMAIN cfg : n \notin ReachWithin(cfg, Refs(cfg, n), Cardinality(DOMAIN cfg))

\* the configurations main may have read whose references form no cycle
AcyclicConfigs == { c \in Configs \cup LoadedConfigs \cup { CyclicConfig } : Acyclic(c) }

Terminated == pc \in { "done", "exited", "killed" }

\* a path names one task of one entry of an action
NoRetry ==
  \A k, l \in 1..Len(log) :
    (k < l /\ log[k].kind = "start" /\ log[l].kind = "start") => log[k].at # log[l].at

C27_AcyclicTerminates ==
  /\ [](config \in AcyclicConfigs => NoRetry)
  /\ (config \in AcyclicConfigs /\ request # Undefined) ~> Terminated

\* top has returned after its nested actions ran to their end, one
\* failure having been ignored on the way
C27_Witness ==
  /\ config \in AcyclicConfigs
  /\ ~ Acyclic(CyclicConfig)
  /\ request # Undefined
  /\ Requested.actionName = "top"
  /\ pc = "done"
  /\ \E k \in 1..Len(log) : log[k].kind = "ok" /\ log[k].at = << 0, 0, 1 >>
  /\ \E k \in 1..Len(log) : log[k].kind = "ignored"

(* ------------------------------------------------------------------ *)
(* C29.  The delete command refuses to delete the main worktree, with   *)
(* nothing removed, exactly when force-delete-main is not requested:    *)
(* without the flag the main worktree is never removed, with the flag   *)
(* its deletion goes ahead.                                             *)
(* ------------------------------------------------------------------ *)
TargetIsMain == repo.target # Undefined /\ repo.target = repo.mainWorktree

RefusedAsMain == repo.pc = "exited" /\ repo.error = "Cannot delete the main worktree"

C29_MainWorktreeNeedsFlag ==
  TargetIsMain =>
    /\ ~ repo.options.forceDeleteMain =>
         /\ repo.target[1] \in repo.worktrees
         /\ repo.ops = << >>
         /\ repo.pc \in { "main", "exited" }
         /\ repo.pc = "exited" => RefusedAsMain
    /\ repo.options.forceDeleteMain => ~ RefusedAsMain

(* ------------------------------------------------------------------ *)
(* C30.  deleteWorktree validates before it removes: when the target    *)
(* is not a listed worktree, or when deleteBranch is asked without      *)
(* forceDeleteBranch and the worktree's branch is not merged, the       *)
(* command fails with the worktree and the branch still there; when it  *)
(* goes ahead, the worktree is removed before the branch is deleted.    *)
(* ------------------------------------------------------------------ *)
Validating == repo.pc \notin { "main" } /\ repo.error \notin
  { "No main worktree found", "Could not find the worktree to delete",
    "Cannot delete the main worktree" }

TargetUnlisted == repo.target[1] \notin AllWorktrees

BranchUnmerged ==
  /\ repo.options.deleteBranch
  /\ ~ repo.options.forceDeleteBranch
  /\ CurrentBranch(repo.target[1]).name \notin repo.merged

C30_ValidatesBeforeRemoving ==
  /\ (Validating /\ repo.pc # "validate" /\ (TargetUnlisted \/ BranchUnmerged)) =>
       /\ repo.pc = "exited"
       /\ repo.exitCode = ExitNotFound
       /\ repo.ops = << >>
       /\ repo.worktrees = AllWorktrees
       /\ repo.branches = AllBranches
  /\ repo.ops \in { << >>, << "worktree" >>, << "worktree", "branch" >> }
  /\ repo.branches # AllBranches => repo.target[1] \notin repo.worktrees

\* the worktree of a merged branch was deleted with its branch
C30_Witness ==
  /\ repo.pc = "done"
  /\ repo.options.deleteBranch
  /\ ~ repo.options.forceDeleteBranch
  /\ repo.ops = << "worktree", "branch" >>
  /\ repo.target = Some("/repo/wt")
  /\ repo.worktrees = { "/repo/main" }
  /\ repo.branches = { "main" }

====
